---------------------------- MODULE Spec2Model ----------------------------
(***************************************************************************)
(* A model of the GraphRAG front-end helpers                               *)
(*   src/frontend/components/functions.py                                  *)
(*   src/frontend/components/index_pipeline.py                             *)
(*                                                                         *)
(* Strings whose characters the code inspects (file names, query types,    *)
(* container names, file contents) are sequences of one-character strings; *)
(* the Python value None, a missing dictionary key and a missing file are  *)
(* tagged records, so that every comparison is between values of one shape.*)
(***************************************************************************)
EXTENDS Integers, Sequences, FiniteSets, TLC

VARIABLES
    session,      \* st.session_state restricted to the keys the code touches
    promptsDir,   \* does ./prompts exist
    files,        \* the working directory: [Dirs \X FileNames -> File]
    zipFile,      \* the local prompts.zip
    containers,   \* IndexPipeline.containers
    cache,        \* st.cache_data's store for get_indexes_data
    remoteIndexes,\* the index names the remote service would list now
    sent,         \* the HTTP requests issued by the last operation
    last,         \* the last session or prompt operation and how it ended
    call          \* the last call of the HTTP client and how it ended

vars == <<session, promptsDir, files, zipFile, containers, cache,
          remoteIndexes, sent, last, call>>

---------------------------------------------------------------------------
(* Bounds of the model *)

\* Largest number of files chosen in the upload widget.
MaxFiles == 1

---------------------------------------------------------------------------
(* Python values *)

None == [t |-> "none", v |-> <<>>]
Str(s) == [t |-> "str", v |-> s]
Absent == [t |-> "absent", v |-> <<>>]
EmptyStr == Str(<<>>)

IsStr(x) == x.t = "str"

\* st.cache_data: the stored return value of the one (api_url, headers) the
\* session calls get_indexes_data with
NotCached == [t |-> "not cached"]
Cached(value) == [t |-> "cached", value |-> value]

\* Before the HTTP client is called.
NoCall == [op |-> "init"]

\* bool(x) of an Optional[str]
Truthy(x) == x.t = "str" /\ x.v # <<>>

StartsWith(s, p) == Len(s) >= Len(p) /\ SubSeq(s, 1, Len(p)) = p
EndsWith(s, p) == Len(s) >= Len(p) /\ SubSeq(s, Len(s) - Len(p) + 1, Len(s)) = p

\* str.lower() on the letters the model uses
LowerChar(c) ==
    CASE c = "G" -> "g"
      [] c = "L" -> "l"
      [] c = "D" -> "d"
      [] OTHER -> c

Lower(s) == [i \in 1..Len(s) |-> LowerChar(s[i])]

---------------------------------------------------------------------------
(* Session state *)

\* PromptKeys.SUMMARY.value, PromptKeys.ENTITY.value, PromptKeys.COMMUNITY.value
SUMMARY == "SUMMARY"
ENTITY == "ENTITY"
COMMUNITY == "COMMUNITY"
BUILD_INDEX_NAME == "build_index_name"

PromptKeys == <<SUMMARY, ENTITY, COMMUNITY>>
PromptKeySet == {PromptKeys[i] : i \in 1..Len(PromptKeys)}
SessionKeys == PromptKeySet \cup {BUILD_INDEX_NAME}

\* A faulty variant: initialisation that writes "" whether or not the key is present.
SetSessionStateVariablesOverwriting(ss) ==
    [k \in SessionKeys |-> EmptyStr]

\* set_session_state_variables
SetSessionStateVariablesOp(ss) ==
    [k \in SessionKeys |-> IF ss[k] = Absent THEN EmptyStr ELSE ss[k]]

---------------------------------------------------------------------------
(* The working directory and the prompt files *)

Dirs == {".", "prompts"}

SummaryTxt == <<"s","u","m","m","a","r","y",".","t","x","t">>
Summ2Txt == <<"s","u","m","m","2",".","t","x","t">>
EntityTxt == <<"e","n","t","i","t","y","_","x",".","t","x","t">>
CommunityTxt == <<"c","o","m","m","u","n","i","t","y","_","y",".","t","x","t">>

FileNames == {SummaryTxt, Summ2Txt, EntityTxt, CommunityTxt}

DotTxt == <<".","t","x","t">>
SummPrefix == <<"s","u","m","m">>
EntityPrefix == <<"e","n","t","i","t","y">>
CommunityPrefix == <<"c","o","m","m","u","n","i","t","y">>

NoFile == [exists |-> FALSE, data |-> <<>>]
FileOf(d) == [exists |-> TRUE, data |-> d]

\* The bytes the remote service is taken to put in the prompt file of each
\* name: some with Windows or old-Mac line ends, some without.
Content(name) ==
    CASE name = SummaryTxt -> <<"S", "CR", "LF", "s">>
      [] name = Summ2Txt -> <<"S", "2">>
      [] name = EntityTxt -> <<"E", "CR">>
      [] name = CommunityTxt -> <<"C", "LF">>

\* Text-mode read (open(path, "r")): universal newlines, CR LF and CR become LF.
RECURSIVE TranslateNewlines(_)
TranslateNewlines(b) ==
    IF b = <<>> THEN <<>>
    ELSE IF b[1] = "CR"
         THEN IF Len(b) >= 2 /\ b[2] = "LF"
              THEN <<"LF">> \o TranslateNewlines(SubSeq(b, 3, Len(b)))
              ELSE <<"LF">> \o TranslateNewlines(Tail(b))
         ELSE <<b[1]>> \o TranslateNewlines(Tail(b))

\* open_file
OpenFile(fs, dir, name) == TranslateNewlines(fs[<<dir, name>>].data)

\* The names Path(dir).iterdir() yields.
DirNames(fs, dir) == {n \in FileNames : fs[<<dir, n>>].exists}

RECURSIVE Orders(_)
\* Every sequence that lists the elements of S once.
Orders(S) ==
    IF S = {} THEN {<<>>}
    ELSE UNION {{<<x>> \o o : o \in Orders(S \ {x})} : x \in S}

\* The orders iterdir() may yield them in (the order is the file system's).
IterDirOrders(fs, dir) == Orders(DirNames(fs, dir))

RECURSIVE SelectSeqBy(_, _, _)
\* [x for x in s if x has suffix/prefix]: the matching names, in order
SelectSeqBy(s, prefix, suffix) ==
    IF s = <<>> THEN <<>>
    ELSE IF StartsWith(s[1], prefix) /\ EndsWith(s[1], suffix)
         THEN <<s[1]>> \o SelectSeqBy(Tail(s), prefix, suffix)
         ELSE SelectSeqBy(Tail(s), prefix, suffix)

NoPrompts == <<<<>>, <<>>, <<>>>>

\* A faulty variant: a loader that takes the entity file for the summary prompt.
GetPromptsInOrderSwapped(fs, exists, order) ==
    IF ~exists THEN [raised |-> "FileNotFoundError", value |-> NoPrompts]
    ELSE LET paths == SelectSeqBy(order, <<>>, DotTxt)
             summ == SelectSeqBy(paths, SummPrefix, <<>>)
             ent == SelectSeqBy(paths, EntityPrefix, <<>>)
             comm == SelectSeqBy(paths, CommunityPrefix, <<>>)
         IN IF summ = <<>> \/ ent = <<>> \/ comm = <<>>
            THEN [raised |-> "IndexError", value |-> NoPrompts]
            ELSE [raised |-> "none",
                  value |-> <<OpenFile(fs, "prompts", ent[1]),
                              OpenFile(fs, "prompts", summ[1]),
                              OpenFile(fs, "prompts", comm[1])>>]

\* A faulty variant: a loader guarded against more than one match per prefix.
GetPromptsInOrderGuarded(fs, exists, order) ==
    IF ~exists THEN [raised |-> "FileNotFoundError", value |-> NoPrompts]
    ELSE LET paths == SelectSeqBy(order, <<>>, DotTxt)
             summ == SelectSeqBy(paths, SummPrefix, <<>>)
             ent == SelectSeqBy(paths, EntityPrefix, <<>>)
             comm == SelectSeqBy(paths, CommunityPrefix, <<>>)
         IN IF Len(summ) # 1 \/ Len(ent) # 1 \/ Len(comm) # 1
            THEN [raised |-> "IndexError", value |-> NoPrompts]
            ELSE [raised |-> "none",
                  value |-> <<OpenFile(fs, "prompts", summ[1]),
                              OpenFile(fs, "prompts", ent[1]),
                              OpenFile(fs, "prompts", comm[1])>>]

\* get_prompts("./prompts") when iterdir() yields the names in `order`
GetPromptsInOrder(fs, exists, order) ==
    IF ~exists THEN [raised |-> "FileNotFoundError", value |-> NoPrompts]
    ELSE LET paths == SelectSeqBy(order, <<>>, DotTxt)
             summ == SelectSeqBy(paths, SummPrefix, <<>>)
             ent == SelectSeqBy(paths, EntityPrefix, <<>>)
             comm == SelectSeqBy(paths, CommunityPrefix, <<>>)
         IN IF summ = <<>> \/ ent = <<>> \/ comm = <<>>
            THEN [raised |-> "IndexError", value |-> NoPrompts]
            ELSE [raised |-> "none",
                  value |-> <<OpenFile(fs, "prompts", summ[1]),
                              OpenFile(fs, "prompts", ent[1]),
                              OpenFile(fs, "prompts", comm[1])>>]

\* Every outcome get_prompts("./prompts") may have on this working directory.
GetPrompts(fs, exists) ==
    {GetPromptsInOrder(fs, exists, o) : o \in IterDirOrders(fs, "prompts")}


---------------------------------------------------------------------------
(* The prompt bundle: download, extraction *)

\* The statuses the remote service is taken to answer with.
Statuses == {200, 304, 404, 500}

\* The three files of the bundle, one per prefix.
GeneratedPrompts == {SummaryTxt, EntityTxt, CommunityTxt}

\* A zip archive: entries dir/name for name in names, each Content(name);
\* or bytes that are no zip archive. The remote service is taken to send
\* any set of files under prompts/, or the three files at the archive's root.
BadArchive == [valid |-> FALSE, dir |-> ".", names |-> {}]
Archives ==
    [valid : {TRUE}, dir : {"prompts"}, names : SUBSET FileNames]
      \cup {[valid |-> TRUE, dir |-> ".", names |-> GeneratedPrompts]}
      \cup {BadArchive}

NoZip == [exists |-> FALSE, body |-> BadArchive]
ZipOf(a) == [exists |-> TRUE, body |-> a]

\* What requests.get gives: a response, or a transport exception. A 4xx or
\* 5xx response of the remote service is taken to carry no archive.
PromptResponses ==
    {r \in [kind : {"response"}, status : Statuses, body : Archives] :
        r.status >= 400 => r.body = BadArchive}
      \cup {[kind |-> "exception", status |-> 0, body |-> BadArchive]}

\* Response.raise_for_status(): HTTPError on 4xx and 5xx
RaisesForStatus(status) == 400 <= status /\ status < 600

\* ZipFile.extractall(): every entry written under the working directory,
\* at the entry's own path, over whatever is there.
ExtractAll(fs, a) ==
    [p \in DOMAIN fs |->
        IF p[1] = a.dir /\ p[2] \in a.names
        THEN FileOf(Content(p[2])) ELSE fs[p]]

\* A faulty variant: the archive is written before the status is looked at.
GenerateAndExtractPromptsWriteFirst(resp, zip, fs, dirExists) ==
    IF resp.kind = "exception"
    THEN [raised |-> "ConnectionError", reached |-> <<"get">>,
          zip |-> zip, fs |-> fs, dir |-> dirExists]
    ELSE IF RaisesForStatus(resp.status)
    THEN [raised |-> "HTTPError", reached |-> <<"get", "write_zip">>,
          zip |-> ZipOf(resp.body), fs |-> fs, dir |-> dirExists]
    ELSE IF ~resp.body.valid
    THEN [raised |-> "BadZipFile", reached |-> <<"get", "write_zip", "open_zip">>,
          zip |-> ZipOf(resp.body), fs |-> fs, dir |-> dirExists]
    ELSE [raised |-> "none",
          reached |-> <<"get", "write_zip", "open_zip", "extractall">>,
          zip |-> ZipOf(resp.body),
          fs |-> ExtractAll(fs, resp.body),
          dir |-> dirExists \/ (resp.body.dir = "prompts" /\ resp.body.names # {})]

\* generate_and_extract_prompts: _generate_prompts, then _extract_prompts_from_zip
GenerateAndExtractPrompts(resp, zip, fs, dirExists) ==
    IF resp.kind = "exception"
    THEN [raised |-> "ConnectionError", reached |-> <<"get">>,
          zip |-> zip, fs |-> fs, dir |-> dirExists]
    ELSE IF RaisesForStatus(resp.status)
    THEN [raised |-> "HTTPError", reached |-> <<"get">>,
          zip |-> zip, fs |-> fs, dir |-> dirExists]
    ELSE IF ~resp.body.valid
    THEN [raised |-> "BadZipFile", reached |-> <<"get", "write_zip", "open_zip">>,
          zip |-> ZipOf(resp.body), fs |-> fs, dir |-> dirExists]
    ELSE [raised |-> "none",
          reached |-> <<"get", "write_zip", "open_zip", "extractall">>,
          zip |-> ZipOf(resp.body),
          fs |-> ExtractAll(fs, resp.body),
          dir |-> dirExists \/ (resp.body.dir = "prompts" /\ resp.body.names # {})]

---------------------------------------------------------------------------
(* Session state updates *)

\* update_session_state_prompt_vars, the three assignments
StorePromptVars(ss, summarize, entity_extract, community) ==
    [ss EXCEPT ![SUMMARY] = summarize,
               ![ENTITY] = entity_extract,
               ![COMMUNITY] = community]

\* The explicit prompt arguments callers are taken to pass.
PromptArgs == {None, EmptyStr, Str(<<"x">>)}

\* any(prompt_values) over the three prompt keys
AnyPrompt(ss) == \E k \in PromptKeySet : Truthy(ss[k])


---------------------------------------------------------------------------
(* JSON values the remote service answers with, and the option lists *)

JList(l) == [t |-> "list", v |-> l]
Dict(k, x) == [t |-> "dict", key |-> k, val |-> x]

\* Container and index names.
NameD == <<"d">>
NameE == <<"e">>
Names == {NameD, NameE}

\* Longest list of names the remote service is taken to return.
MaxNames == 2

NameLists == UNION {[1..n -> Names] : n \in 0..MaxNames}

\* None, or a one-key dictionary whose value is a list of names or null.
JsonKeys == {"storage_name", "index_name", "detail"}
JsonValues ==
    {None} \cup {Dict(k, x) : k \in JsonKeys, x \in {None} \cup {JList(l) : l \in NameLists}}

\* d[key] is a list (anything else makes `[""] + d[key]` raise, which is caught)
HasList(d, key) == d.t = "dict" /\ d.key = key /\ d.val.t = "list"

\* A faulty variant: the placeholder appended after the names.
ShowIndexOptionsPlaceholderLast(indexes) ==
    IF HasList(indexes, "index_name") THEN indexes.val.v \o << <<>> >> ELSE << <<>> >>

\* show_index_options
ShowIndexOptions(indexes) ==
    IF HasList(indexes, "index_name") THEN << <<>> >> \o indexes.val.v ELSE << <<>> >>

\* IndexPipeline._parse_container_names
ParseContainerNames(c) ==
    IF HasList(c, "storage_name") THEN << <<>> >> \o c.val.v ELSE << <<>> >>

SeqToSet(s) == {s[i] : i \in 1..Len(s)}

---------------------------------------------------------------------------
(* HTTP requests *)

ApiUrl == "base"

\* A request: method, the URL's path below the base, query parameters
\* (name, value pairs), a JSON body and the names of the multipart parts.
Request(method, path, params, json, parts) ==
    [method |-> method, base |-> ApiUrl, path |-> path, params |-> params,
     json |-> json, parts |-> parts]

NoJson == [index_name |-> <<>>, query |-> <<>>, reformat_context_data |-> FALSE]

\* The limit _generate_prompts and generate_and_extract_prompts default to.
DefaultLimit == 5

\* _generate_prompts: GET {api_url}/index/config/prompts
PromptsRequest(storage_name) ==
    Request("GET", <<"index", "config", "prompts">>,
            <<<<"storage_name", storage_name>>, <<"limit", DefaultLimit>>>>,
            NoJson, <<>>)

---------------------------------------------------------------------------
(* Operations on the session state and the prompt bundle *)

\* What the last operation was: its name, what it raised ("none": nothing),
\* the calls it reached in order, the prompts it loaded, its initial_setting
\* flag, and the status and validity (a zip archive or not) of the response.
LastOp(op, raised, reached, value, initial, status, valid) ==
    [op |-> op, raised |-> raised, reached |-> reached, value |-> value,
     initial |-> initial, status |-> status, valid |-> valid]

\* set_session_state_variables()
SetSessionStateVariables ==
    /\ session' = SetSessionStateVariablesOp(session)
    /\ last' = LastOp("set_session_state_variables", "none", <<>>, NoPrompts, FALSE, 0, FALSE)
    /\ sent' = <<>>
    /\ UNCHANGED <<promptsDir, files, zipFile, containers, cache, remoteIndexes, call>>

\* update_session_state_prompt_vars(summarize, entity_extract, community,
\*                                  initial_setting)
UpdateSessionStatePromptVars ==
    \E summarize, entity_extract, community \in PromptArgs, initial_setting \in BOOLEAN :
        /\ IF initial_setting
           THEN \E r \in GetPrompts(files, promptsDir) :
                  /\ session' = IF r.raised = "none"
                                THEN StorePromptVars(session, Str(r.value[1]),
                                                     Str(r.value[2]), Str(r.value[3]))
                                ELSE session
                  /\ last' = LastOp("update_session_state_prompt_vars", r.raised,
                                    <<"get_prompts">>, r.value, TRUE, 0, FALSE)
           ELSE /\ session' = StorePromptVars(session, summarize, entity_extract,
                                              community)
                /\ last' = LastOp("update_session_state_prompt_vars", "none",
                                  <<>>, NoPrompts, FALSE, 0, FALSE)
        /\ sent' = <<>>
        /\ UNCHANGED <<promptsDir, files, zipFile, containers, cache, remoteIndexes, call>>

\* get_prompts()
GetPromptsCall ==
    \E r \in GetPrompts(files, promptsDir) :
        /\ last' = LastOp("get_prompts", r.raised, <<>>, r.value, FALSE, 0, FALSE)
        /\ sent' = <<>>
        /\ UNCHANGED <<session, promptsDir, files, zipFile, containers, cache,
                       remoteIndexes, call>>

\* IndexPipeline.prompt_config_step(), the "Generate Prompts" button pressed
PromptConfigStep ==
    \E select_storage_name2 \in SeqToSet(ParseContainerNames(containers)),
       resp \in PromptResponses :
        LET g == GenerateAndExtractPrompts(resp, zipFile, files, promptsDir) IN
        /\ sent' = <<PromptsRequest(select_storage_name2)>>
        /\ zipFile' = g.zip
        /\ files' = g.fs
        /\ promptsDir' = g.dir
        /\ IF g.raised # "none"
           THEN /\ session' = session
                /\ last' = LastOp("prompt_config_step", g.raised, g.reached,
                                  NoPrompts, TRUE, resp.status, resp.body.valid)
           ELSE \E r \in GetPrompts(g.fs, g.dir) :
                  /\ session' = IF r.raised = "none"
                                THEN StorePromptVars(session, Str(r.value[1]),
                                                     Str(r.value[2]), Str(r.value[3]))
                                ELSE session
                  /\ last' = LastOp("prompt_config_step", r.raised,
                                    g.reached \o <<"get_prompts">>
                                      \o (IF r.raised = "none"
                                          THEN <<"update_session_state">>
                                               \o (IF AnyPrompt(session')
                                                   THEN <<"prompt_expander_">>
                                                   ELSE <<>>)
                                          ELSE <<>>),
                                    r.value, TRUE, resp.status, resp.body.valid)
        /\ UNCHANGED <<containers, cache, remoteIndexes, call>>

\* The state when the application starts: an empty session, a working
\* directory without prompt files (./prompts may or may not exist), and an
\* IndexPipeline built on what the container listing returned.
Init ==
    /\ session = [k \in SessionKeys |-> Absent]
    /\ promptsDir \in BOOLEAN
    /\ files = [p \in Dirs \X FileNames |-> NoFile]
    /\ zipFile = NoZip
    /\ containers = Dict("storage_name", JList(<<NameD>>))
    /\ cache = NotCached
    /\ remoteIndexes = <<>>
    /\ sent = <<>>
    /\ call = NoCall
    /\ last = LastOp("init", "none", <<>>, NoPrompts, FALSE, 0, FALSE)

\* The prompt bundle: generation steps and loads, over the working directory.
Next ==
    \/ GetPromptsCall
    \/ PromptConfigStep

Spec == Init /\ [][Next]_vars

\* The session state holder: initialisation and updates, over a working
\* directory that either holds no prompts or the three generated ones.

InitSession ==
    /\ session = [k \in SessionKeys |-> Absent]
    /\ \E generated \in BOOLEAN :
         /\ promptsDir = generated
         /\ files = [p \in Dirs \X FileNames |->
                       IF generated /\ p[1] = "prompts" /\ p[2] \in GeneratedPrompts
                       THEN FileOf(Content(p[2])) ELSE NoFile]
    /\ zipFile = NoZip
    /\ containers = None
    /\ cache = NotCached
    /\ remoteIndexes = <<>>
    /\ sent = <<>>
    /\ call = NoCall
    /\ last = LastOp("init", "none", <<>>, NoPrompts, FALSE, 0, FALSE)

NextSession ==
    \/ SetSessionStateVariables
    \/ UpdateSessionStatePromptVars

SpecSession == InitSession /\ [][NextSession]_vars

---------------------------------------------------------------------------
(* Properties of the prompt bundle *)

Reached(x) == \E i \in 1..Len(last.reached) : last.reached[i] = x
ReachedNext(x) == \E i \in 1..Len(last'.reached) : last'.reached[i] = x

\* The .txt files of ./prompts whose name starts with the prefix.
Matches(fs, prefix) ==
    {n \in FileNames : fs[<<"prompts", n>>].exists
                         /\ EndsWith(n, DotTxt) /\ StartsWith(n, prefix)}

Prefixes == {SummPrefix, EntityPrefix, CommunityPrefix}

\* The archive's entry for a prefix, when it has exactly one.
Entry(a, prefix) == CHOOSE n \in a.names : StartsWith(n, prefix)

OnePerPrefix(a) ==
    /\ a.valid
    /\ Cardinality(a.names) = 3
    /\ \A q \in Prefixes : \E n \in a.names : StartsWith(n, q) /\ EndsWith(n, DotTxt)

\* A generation step has just downloaded and extracted a one-file-per-prefix
\* archive.
ExtractedBundle ==
    /\ last.op = "prompt_config_step"
    /\ Reached("extractall")
    /\ OnePerPrefix(zipFile.body)

\* C3 as stated: after a one-file-per-prefix archive is downloaded and
\* extracted, the prompt loader returns exactly the three files' contents, in
\* the order (summary, entity, community).
C3_RoundTripAsStated ==
    ExtractedBundle =>
        /\ last.raised = "none"
        /\ last.value = <<Content(Entry(zipFile.body, SummPrefix)),
                          Content(Entry(zipFile.body, EntityPrefix)),
                          Content(Entry(zipFile.body, CommunityPrefix))>>

\* C3 amended: when the archive's three entries lie under prompts/ and, after
\* extraction, ./prompts holds no other .txt file with one of the prefixes,
\* the loader returns the three files' contents as a text-mode read gives them
\* (CR LF and CR read as LF), in the order (summary, entity, community), and
\* the step stores them in the session state in that order.
C3_RoundTrip ==
    (/\ ExtractedBundle
     /\ zipFile.body.dir = "prompts"
     /\ \A q \in Prefixes : Cardinality(Matches(files, q)) = 1)
    =>
        /\ last.raised = "none"
        /\ last.value =
             <<TranslateNewlines(Content(Entry(zipFile.body, SummPrefix))),
               TranslateNewlines(Content(Entry(zipFile.body, EntityPrefix))),
               TranslateNewlines(Content(Entry(zipFile.body, CommunityPrefix)))>>
        /\ session[SUMMARY] = Str(last.value[1])
        /\ session[ENTITY] = Str(last.value[2])
        /\ session[COMMUNITY] = Str(last.value[3])

\* C3 witness: a bundle under prompts/ was extracted next to nothing else
\* and loaded.
C3_Witness ==
    /\ ExtractedBundle
    /\ zipFile.body.dir = "prompts"
    /\ \A q \in Prefixes : Cardinality(Matches(files, q)) = 1
    /\ last.raised = "none"
    /\ session[ENTITY] = Str(<<"E", "LF">>)

\* C8 as stated: on an existing prompt directory the loader fails with an
\* index error exactly when some prefix has zero or more than one matching
\* .txt file.
C8_FailsUnlessExactlyOneAsStated ==
    (last.op = "get_prompts" /\ promptsDir) =>
        (last.raised = "IndexError"
           <=> \E q \in Prefixes : Cardinality(Matches(files, q)) # 1)

\* C8 amended: on an existing prompt directory the loader fails with an index
\* error exactly when some prefix has no matching .txt file; when every
\* prefix has one or more it succeeds and returns, for each prefix, the text
\* of one of the matching files (the first the directory listing yields).
\* On a missing directory it fails with a file-not-found error.
C8_FailsOnlyOnZeroMatches ==
    last.op = "get_prompts" =>
        /\ ~promptsDir => last.raised = "FileNotFoundError"
        /\ promptsDir =>
             /\ last.raised = "IndexError"
                  <=> \E q \in Prefixes : Matches(files, q) = {}
             /\ last.raised = "none"
                  <=> \A q \in Prefixes : Matches(files, q) # {}
             /\ last.raised = "none" =>
                  /\ \E n \in Matches(files, SummPrefix) :
                       last.value[1] = TranslateNewlines(files[<<"prompts", n>>].data)
                  /\ \E n \in Matches(files, EntityPrefix) :
                       last.value[2] = TranslateNewlines(files[<<"prompts", n>>].data)
                  /\ \E n \in Matches(files, CommunityPrefix) :
                       last.value[3] = TranslateNewlines(files[<<"prompts", n>>].data)

\* C8 witness: the loader succeeded on a directory with two summ*.txt files.
C8_Witness ==
    /\ last.op = "get_prompts"
    /\ Cardinality(Matches(files, SummPrefix)) = 2
    /\ last.raised = "none"

\* The calls of a generation step, in the order the code makes them.
StepOrder ==
    <<"get", "write_zip", "open_zip", "extractall", "get_prompts",
      "update_session_state", "prompt_expander_">>

IsPrefix(s, t) == Len(s) <= Len(t) /\ SubSeq(t, 1, Len(s)) = s

StepTaken == last'.op = "prompt_config_step"

---------------------------------------------------------------------------
(* Properties of the session state holder *)

\* C2: set_session_state_variables leaves every key that is present with its
\* value, sets every missing key (the three prompt keys and the build index
\* name) to the empty string, and a call right after a call changes nothing.
C2_InitialisationIsIdempotent ==
    [][last'.op = "set_session_state_variables" =>
        /\ \A k \in SessionKeys :
             /\ session[k] # Absent => session'[k] = session[k]
             /\ session[k] = Absent => session'[k] = EmptyStr
        /\ last.op = "set_session_state_variables" => session' = session]_vars

\* C2 witness: the initialisation has run on a session whose prompts were set
\* before it, one of them to a text and one to null, and kept them.
C2_Witness ==
    /\ last.op = "set_session_state_variables"
    /\ session[SUMMARY] = Str(<<"x">>)
    /\ session[ENTITY] = None
    /\ session[BUILD_INDEX_NAME] = EmptyStr

\* C9 as stated: every fixed key present in the session state holds a string.
C9_SessionValuesAreStrings ==
    \A k \in SessionKeys : session[k] # Absent => IsStr(session[k])

---------------------------------------------------------------------------
(* The HTTP client wrappers *)

\* A response body: JSON text, or text response.json() cannot parse.
Parsed(j) == [ok |-> TRUE, json |-> j]
Unparseable == [ok |-> FALSE, json |-> None]

Response(status, body) == [kind |-> "response", status |-> status, body |-> body]
TransportError == [kind |-> "exception", status |-> 0, body |-> Unparseable]
NoResponse == [kind |-> "no request", status |-> 0, body |-> Unparseable]

ErrorDetail == Dict("detail", None)

\* What the remote service may answer when a 200 would carry `good`.
ResponsesWith(good) ==
    {Response(200, Parsed(good)), Response(200, Unparseable),
     Response(202, Parsed(good)),
     Response(500, Parsed(ErrorDetail)), Response(500, Unparseable),
     TransportError}

\* What a wrapper gives back: the exception it raised ("none": it returned),
\* the value it returned and the error message it showed (st.error).
Returned(value, shown) == [raised |-> "none", value |-> value, shown |-> shown]
Raised(exc) == [raised |-> exc, value |-> None, shown |-> "none"]

\* A requests.Response handed to the caller as it is.
ResponseObject(resp) == [t |-> "response", status |-> resp.status]

\* A faulty variant: a wrapper that parses and returns the body of any success status.
GetStorageContainerNamesAny2xx(resp) ==
    IF resp.kind = "exception" THEN Returned(None, "exception")
    ELSE IF 200 <= resp.status /\ resp.status < 300
    THEN IF resp.body.ok THEN Returned(resp.body.json, "none")
         ELSE Returned(None, "exception")
    ELSE Returned(None, "status")

\* get_storage_container_names, given what requests.get gave
GetStorageContainerNames(resp) ==
    IF resp.kind = "exception" THEN Returned(None, "exception")
    ELSE IF resp.status = 200
    THEN IF resp.body.ok THEN Returned(resp.body.json, "none")
         ELSE Returned(None, "exception")
    ELSE Returned(None, "status")

\* get_entity_data, given what requests.get gave
GetEntityData(resp) ==
    IF resp.kind = "exception" THEN Returned(None, "exception")
    ELSE IF resp.status = 200
    THEN IF resp.body.ok THEN Returned(resp.body.json, "none")
         ELSE Returned(None, "exception")
    ELSE Returned(None, "status")

\* get_indexes_data's body (what runs on a cache miss), given what
\* requests.get gave
GetIndexesDataUncached(resp) ==
    IF resp.kind = "exception" THEN Returned(None, "exception")
    ELSE IF resp.status = 200
    THEN IF resp.body.ok THEN Returned(resp.body.json, "none")
         ELSE Returned(None, "exception")
    ELSE Returned(None, "status")

\* query_index after the POST: the error message of a bad status shows
\* response.json(), which raises into the same handler when it cannot parse
QueryIndexResult(resp) ==
    IF resp.kind = "exception" THEN Returned(None, "exception")
    ELSE IF resp.status = 200
    THEN IF resp.body.ok THEN Returned(resp.body.json, "none")
         ELSE Returned(None, "exception")
    ELSE IF resp.body.ok THEN Returned(None, "status and body")
         ELSE Returned(None, "exception")

\* get_source_entity after the GET
GetSourceEntityResult(resp) ==
    IF resp.kind = "exception" THEN Returned(None, "exception")
    ELSE IF resp.status = 200
    THEN IF resp.body.ok THEN Returned(resp.body.json, "none")
         ELSE Returned(None, "exception")
    ELSE IF resp.body.ok THEN Returned(None, "status and body")
         ELSE Returned(None, "exception")

\* A faulty variant: the query type is put in the URL as given.
QueryRequestAsGiven(index_name, query_type, query) ==
    Request("POST", <<"query", query_type>>, <<>>,
            [index_name |-> index_name, query |-> query,
             reformat_context_data |-> TRUE], <<>>)

\* query_index: POST {api_url}/query/{query_type.lower()} with the JSON body
QueryRequest(index_name, query_type, query) ==
    Request("POST", <<"query", Lower(query_type)>>, <<>>,
            [index_name |-> index_name, query |-> query,
             reformat_context_data |-> TRUE], <<>>)

\* get_source_entity: GET {api_url}/source/entity/{index_name}/{entity_id}
SourceEntityRequest(index_name, entity_id) ==
    Request("GET", <<"source", "entity", index_name, entity_id>>, <<>>, NoJson, <<>>)

\* A prompt file argument of build_index: None, the empty string, the path of
\* a file that exists or does not, or a StringIO.
PathArg(exists) == [t |-> "path", exists |-> exists]
StringIOArg == [t |-> "StringIO"]
PromptFileArgs == {None, EmptyStr, PathArg(TRUE), PathArg(FALSE), StringIOArg}

\* bool(arg): None and "" are false, a non-empty path and a StringIO true
Given(arg) == arg.t \in {"path", "StringIO"}

\* open(path, "r") raises when the file is not there
OpenRaises(arg) == arg.t = "path" /\ ~arg.exists

\* build_index: the multipart parts, in the order the code adds them
PromptParts(entity, community, summarize) ==
    (IF Given(entity) THEN <<"entity_extraction_prompt">> ELSE <<>>)
      \o (IF Given(community) THEN <<"community_report_prompt">> ELSE <<>>)
      \o (IF Given(summarize) THEN <<"summarize_descriptions_prompt">> ELSE <<>>)

\* build_index: POST {api_url}/index
BuildIndexRequest(storage_name, index_name, entity, community, summarize) ==
    Request("POST", <<"index">>,
            <<<<"index_name", index_name>>, <<"storage_name", storage_name>>>>,
            NoJson, PromptParts(entity, community, summarize))

\* build_index after the prompt files are opened: whatever requests.post gives
\* or raises goes to the caller
BuildIndexResult(resp) ==
    IF resp.kind = "exception" THEN Raised("ConnectionError")
    ELSE Returned(ResponseObject(resp), "none")

\* A faulty variant: get_indexes_data without the cache decorator.
GetIndexesDataNoCache(c, resp) ==
    [ret |-> GetIndexesDataUncached(resp), cache |-> c, requested |-> TRUE]

\* get_indexes_data under @st.cache_data: the body runs on a miss and what it
\* returns (None included) is stored; a hit gives the stored value back
GetIndexesData(c, resp) ==
    IF c = NotCached
    THEN [ret |-> GetIndexesDataUncached(resp),
          cache |-> Cached(GetIndexesDataUncached(resp)),
          requested |-> TRUE]
    ELSE [ret |-> c.value, cache |-> c, requested |-> FALSE]

---------------------------------------------------------------------------
(* The storage step *)

\* A faulty variant: the button is disabled on an empty name only.
UploadDisabledOnEmptyNameOnly(select_storage_name, input_storage_name) ==
    input_storage_name = <<>>

\* disabled=disable_other_input or input_storage_name == ""
UploadDisabled(select_storage_name, input_storage_name) ==
    select_storage_name # <<>> \/ input_storage_name = <<>>

\* st.button: True in the run that follows a click, and a disabled button
\* takes no click
ButtonPressed(clicked, disabled) == clicked /\ ~disabled

\* POST {api_url}/data, one "files" part per chosen file
UploadRequest(input_storage_name, nfiles) ==
    Request("POST", <<"data">>, <<<<"storage_name", input_storage_name>>>>,
            NoJson, [i \in 1..nfiles |-> "files"])

\* storage_data_step once the widgets have their values: the request it
\* sends, if any, and how it ends
StorageDataStepResult(select_storage_name, typed, nfiles, clicked, resp) ==
    LET input_storage_name == Lower(typed)
        pressed == ButtonPressed(clicked,
                                 UploadDisabled(select_storage_name, input_storage_name))
    IN IF pressed /\ nfiles > 0 /\ input_storage_name # <<>>
       THEN [sent |-> <<UploadRequest(input_storage_name, nfiles)>>,
             ret |-> IF resp.kind = "exception" THEN Raised("ConnectionError")
                     ELSE IF resp.status = 200 THEN Returned(None, "success")
                     ELSE IF resp.body.ok THEN Returned(None, "body")
                     ELSE Raised("JSONDecodeError")]
       ELSE [sent |-> <<>>, ret |-> Returned(None, "none")]

---------------------------------------------------------------------------
(* Operations of the client: each records what it was called with, what the
   remote service answered and what the caller got *)

Call(op, args, resp, ret) == [op |-> op, args |-> args, resp |-> resp, ret |-> ret]

NoArgs == [none |-> TRUE]

\* The container listings, answers and ids the remote service is taken to hold.
ContainerListings == {<<>>, <<NameD>>}
Answer == Dict("result", JList(<<NameD>>))
EntityConfig == Dict("entity_types", JList(<<NameE>>))
EntityRecord == Dict("text", JList(<<NameE>>))
EntityIds == {<<"7">>}

\* The index lists the remote service may hold: no name twice.
RemoteLists == {l \in NameLists : \A i, j \in 1..Len(l) : l[i] = l[j] => i = j}

\* Query types and texts the user is taken to enter.
QueryTypes == {<<"G", "l">>, <<"l">>}
Queries == {<<"h">>, <<"H", "i">>}

\* Longest list of index names a query names.
MaxQueried == 1
QueriedLists == UNION {[1..n -> Names] : n \in 0..MaxQueried}

UnchangedPrompts == UNCHANGED <<session, promptsDir, files, zipFile, last>>

\* get_storage_container_names(api_url, headers)
GetStorageContainerNamesCall ==
    \E l \in ContainerListings :
      \E resp \in ResponsesWith(Dict("storage_name", JList(l))) :
        /\ sent' = <<Request("GET", <<"data">>, <<>>, NoJson, <<>>)>>
        /\ call' = Call("get_storage_container_names", NoArgs, resp,
                        GetStorageContainerNames(resp))
        /\ UNCHANGED <<containers, cache, remoteIndexes>>
        /\ UnchangedPrompts

\* get_entity_data(api_url, headers)
GetEntityDataCall ==
    \E resp \in ResponsesWith(EntityConfig) :
        /\ sent' = <<Request("GET", <<"index", "config", "entity">>, <<>>, NoJson, <<>>)>>
        /\ call' = Call("get_entity_data", NoArgs, resp, GetEntityData(resp))
        /\ UNCHANGED <<containers, cache, remoteIndexes>>
        /\ UnchangedPrompts

\* get_indexes_data(api_url, headers)
GetIndexesDataCall ==
    \E resp \in ResponsesWith(Dict("index_name", JList(remoteIndexes))) :
        LET r == GetIndexesData(cache, resp) IN
        /\ sent' = IF r.requested
                   THEN <<Request("GET", <<"index">>, <<>>, NoJson, <<>>)>>
                   ELSE <<>>
        /\ cache' = r.cache
        /\ call' = Call("get_indexes_data", NoArgs,
                        IF r.requested THEN resp ELSE NoResponse, r.ret)
        /\ UNCHANGED <<containers, remoteIndexes>>
        /\ UnchangedPrompts

\* build_index(api_url, headers, storage_name, index_name, the prompt files)
BuildIndexCall ==
    \E storage_name \in {NameD}, index_name \in Names,
       entity \in PromptFileArgs, community, summarize \in {None, StringIOArg},
       resp \in {Response(200, Parsed(ErrorDetail)),
                 Response(500, Parsed(ErrorDetail)), TransportError} :
        /\ IF OpenRaises(entity) \/ OpenRaises(community) \/ OpenRaises(summarize)
           THEN /\ sent' = <<>>
                /\ call' = Call("build_index",
                                [index_name |-> index_name, entity |-> entity,
                                 community |-> community, summarize |-> summarize],
                                NoResponse, Raised("FileNotFoundError"))
           ELSE /\ sent' = <<BuildIndexRequest(storage_name, index_name, entity,
                                               community, summarize)>>
                /\ call' = Call("build_index",
                                [index_name |-> index_name, entity |-> entity,
                                 community |-> community, summarize |-> summarize],
                                resp, BuildIndexResult(resp))
        /\ UNCHANGED <<containers, cache, remoteIndexes>>
        /\ UnchangedPrompts

\* query_index(index_name, query_type, query, api_url, headers), awaited
QueryIndexCall ==
    \E index_name \in QueriedLists, query_type \in QueryTypes, query \in Queries,
       resp \in ResponsesWith(Answer) :
        /\ sent' = <<QueryRequest(index_name, query_type, query)>>
        /\ call' = Call("query_index",
                        [index_name |-> index_name, query_type |-> query_type,
                         query |-> query],
                        resp, QueryIndexResult(resp))
        /\ UNCHANGED <<containers, cache, remoteIndexes>>
        /\ UnchangedPrompts

\* get_source_entity(index_name, entity_id, api_url, headers)
GetSourceEntityCall ==
    \E index_name \in Names, entity_id \in EntityIds,
       resp \in ResponsesWith(EntityRecord) :
        /\ sent' = <<SourceEntityRequest(index_name, entity_id)>>
        /\ call' = Call("get_source_entity",
                        [index_name |-> index_name, entity_id |-> entity_id],
                        resp, GetSourceEntityResult(resp))
        /\ UNCHANGED <<containers, cache, remoteIndexes>>
        /\ UnchangedPrompts

\* IndexPipeline.storage_data_step(), one run of the script: the widgets hold
\* what the user selected, typed and chose, and the button was clicked or not
StorageDataStep ==
    \E select_storage_name \in SeqToSet(ParseContainerNames(containers)),
       typed \in {<<>>, <<"D">>, <<"e">>}, nfiles \in 0..MaxFiles,
       clicked \in BOOLEAN,
       resp \in {Response(200, Unparseable), Response(500, Parsed(ErrorDetail)),
                 Response(500, Unparseable), TransportError} :
        LET r == StorageDataStepResult(select_storage_name, typed, nfiles,
                                       clicked, resp) IN
        /\ sent' = r.sent
        /\ call' = Call("storage_data_step",
                        [select_storage_name |-> select_storage_name,
                         typed |-> typed, nfiles |-> nfiles, clicked |-> clicked],
                        IF r.sent = <<>> THEN NoResponse ELSE resp, r.ret)
        /\ UNCHANGED <<containers, cache, remoteIndexes>>
        /\ UnchangedPrompts

\* The remote service's index list changes (a build finishes, an index is
\* deleted): nothing of the client changes.
RemoteChange ==
    /\ \E l \in RemoteLists : l # remoteIndexes /\ remoteIndexes' = l
    /\ UNCHANGED <<containers, cache, sent, call>>
    /\ UnchangedPrompts

InitApi ==
    /\ session = [k \in SessionKeys |-> Absent]
    /\ promptsDir = FALSE
    /\ files = [p \in Dirs \X FileNames |-> NoFile]
    /\ zipFile = NoZip
    /\ last = LastOp("init", "none", <<>>, NoPrompts, FALSE, 0, FALSE)
    /\ containers = Dict("storage_name", JList(<<NameD>>))
    /\ cache = NotCached
    /\ remoteIndexes \in RemoteLists
    /\ sent = <<>>
    /\ call = NoCall

NextApi ==
    \/ GetStorageContainerNamesCall
    \/ GetEntityDataCall
    \/ GetIndexesDataCall
    \/ BuildIndexCall
    \/ QueryIndexCall
    \/ GetSourceEntityCall
    \/ StorageDataStep
    \/ RemoteChange

SpecApi == InitApi /\ [][NextApi]_vars

---------------------------------------------------------------------------
(* Properties of the HTTP client and the storage step *)

Wrappers ==
    {"get_storage_container_names", "get_entity_data", "get_indexes_data",
     "build_index", "query_index", "get_source_entity"}

\* The call got a transport exception, or a response whose status is not 200.
FailedRequest ==
    \/ call.resp.kind = "exception"
    \/ call.resp.kind = "response" /\ call.resp.status # 200

\* C1 as stated: every wrapper, build_index included, returns None and does
\* not raise on a response that is not 200 and on a transport exception.
C1_WrappersSwallowFailuresAsStated ==
    (call.op \in Wrappers /\ FailedRequest) =>
        call.ret.raised = "none" /\ call.ret.value.t = "none"

\* C1 amended: the five wrappers that parse the response (the listings, the
\* entity configuration, the query, the entity record) return None and do not
\* raise on a response that is not 200 and on a transport exception;
\* build_index returns the response object whatever its status, and lets a
\* transport exception go to its caller.
C1_WrappersSwallowFailures ==
    /\ (call.op \in Wrappers \ {"build_index"} /\ FailedRequest) =>
          call.ret.raised = "none" /\ call.ret.value.t = "none"
    /\ (call.op = "build_index" /\ call.resp.kind = "response") =>
          /\ call.ret.raised = "none"
          /\ call.ret.value.t = "response"
          /\ call.ret.value.status = call.resp.status
    /\ (call.op = "build_index" /\ call.resp.kind = "exception") =>
          call.ret.raised = "ConnectionError"

\* C1 witness: a query met a 500 whose body does not parse, and gave None.
C1_Witness ==
    /\ call.op = "query_index"
    /\ call.resp = Response(500, Unparseable)
    /\ call.ret = Returned(None, "exception")

\* C4: once get_indexes_data has returned, every later call returns what the
\* first call returned and sends no request, whatever was called and whatever
\* the remote index list became in between; no operation empties or changes
\* the stored result.
C4_IndexListingIsCachedForever ==
    [][/\ cache # NotCached => cache' = cache
       /\ (call'.op = "get_indexes_data" /\ remoteIndexes' = remoteIndexes
             /\ cache = NotCached) =>
             /\ Len(sent') = 1
             /\ cache' = Cached(call'.ret)
       /\ (call'.op = "get_indexes_data" /\ remoteIndexes' = remoteIndexes
             /\ cache # NotCached) =>
             /\ call'.ret = cache.value
             /\ call'.resp = NoResponse
             /\ sent' = <<>>]_vars

\* C4 witness: a call was answered from the cache with a list the remote
\* service no longer holds.
C4_Witness ==
    /\ call.op = "get_indexes_data"
    /\ call.resp = NoResponse
    /\ call.ret.value.t = "dict"
    /\ call.ret.value.val.v # remoteIndexes

\* C5: the storage step sends an upload only in a run where no existing
\* container is selected, the entered name is not empty, a file is chosen and
\* the button was clicked; the one request is POST /data with the lower-cased
\* name and one part per file. With a container selected or no name entered
\* it sends nothing.
C5_UploadOnlyWithNameAndNoSelection ==
    call.op = "storage_data_step" =>
        /\ sent # <<>> =>
             /\ call.args.select_storage_name = <<>>
             /\ call.args.typed # <<>>
             /\ call.args.nfiles > 0
             /\ call.args.clicked
             /\ Len(sent) = 1
             /\ sent[1].method = "POST"
             /\ sent[1].path = <<"data">>
             /\ Len(sent[1].parts) = call.args.nfiles
             /\ Len(sent[1].params) = 1
             /\ sent[1].params[1][1] = "storage_name"
             /\ Len(sent[1].params[1][2]) = Len(call.args.typed)
             /\ \A i \in 1..Len(call.args.typed) :
                  sent[1].params[1][2][i] \in {"d", "e"}
        /\ (call.args.select_storage_name # <<>> \/ call.args.typed = <<>>) =>
             sent = <<>>

\* C5 witness: an upload was sent.
C5_Witness ==
    /\ call.op = "storage_data_step"
    /\ sent # <<>>
    /\ call.args.typed = <<"D">>

\* t is s with its upper-case letters replaced by the lower-case ones.
IsLowerCased(t, s) ==
    /\ Len(t) = Len(s)
    /\ \A i \in 1..Len(s) :
         \/ s[i] \in {"g", "l", "d", "e", "h", "i"} /\ t[i] = s[i]
         \/ <<s[i], t[i]>> \in {<<"G", "g">>, <<"L", "l">>, <<"D", "d">>}

\* C6: query_index sends exactly one request, a POST to /query/<the query
\* type lower-cased> whose JSON body is the index names, the query text and
\* reformat_context_data true, and returns the parsed body of a 200 response.
C6_QueryRequest ==
    call.op = "query_index" =>
        /\ Len(sent) = 1
        /\ sent[1].method = "POST"
        /\ sent[1].base = ApiUrl
        /\ Len(sent[1].path) = 2
        /\ sent[1].path[1] = "query"
        /\ IsLowerCased(sent[1].path[2], call.args.query_type)
        /\ sent[1].json.index_name = call.args.index_name
        /\ sent[1].json.query = call.args.query
        /\ sent[1].json.reformat_context_data = TRUE
        /\ DOMAIN sent[1].json = {"index_name", "query", "reformat_context_data"}
        /\ (call.resp.kind = "response" /\ call.resp.status = 200
              /\ call.resp.body.ok) =>
             call.ret = Returned(call.resp.body.json, "none")

\* C6 witness: a query of type "Gl" on one index was answered with 200.
C6_Witness ==
    /\ call.op = "query_index"
    /\ call.args.query_type = <<"G", "l">>
    /\ call.args.index_name = <<NameD>>
    /\ call.resp = Response(200, Parsed(Answer))

---------------------------------------------------------------------------
(* The option lists, as functions of what the listing calls returned *)

\* show_index_options(indexes)
ShowIndexOptionsCall ==
    \E indexes \in JsonValues :
        /\ call' = Call("show_index_options", indexes, NoResponse,
                        Returned(ShowIndexOptions(indexes), "none"))
        /\ sent' = <<>>
        /\ UNCHANGED <<containers, cache, remoteIndexes>>
        /\ UnchangedPrompts

\* IndexPipeline(containers, ...)._parse_container_names()
ParseContainerNamesCall ==
    /\ call' = Call("_parse_container_names", containers, NoResponse,
                    Returned(ParseContainerNames(containers), "none"))
    /\ sent' = <<>>
    /\ UNCHANGED <<containers, cache, remoteIndexes>>
    /\ UnchangedPrompts

\* An IndexPipeline built on any value the container listing may have given.
InitOptions ==
    /\ session = [k \in SessionKeys |-> Absent]
    /\ promptsDir = FALSE
    /\ files = [p \in Dirs \X FileNames |-> NoFile]
    /\ zipFile = NoZip
    /\ last = LastOp("init", "none", <<>>, NoPrompts, FALSE, 0, FALSE)
    /\ containers \in JsonValues
    /\ cache = NotCached
    /\ remoteIndexes = <<>>
    /\ sent = <<>>
    /\ call = NoCall

NextOptions ==
    \/ ShowIndexOptionsCall
    \/ ParseContainerNamesCall

SpecOptions == InitOptions /\ [][NextOptions]_vars

\* The names a listing holds under the key, when it holds a list there.
ListedNames(d, key) ==
    IF d.t = "dict" /\ d.key = key /\ d.val.t = "list" THEN d.val.v ELSE <<>>

\* C7: the options are the empty-string placeholder followed by the names the
\* listing holds, in their order; a null listing, a listing without the key
\* and an empty list give the placeholder alone, and nothing is raised.
C7_OptionsArePlaceholderThenNames ==
    /\ call.op = "show_index_options" =>
         /\ call.ret.raised = "none"
         /\ Len(call.ret.value) = 1 + Len(ListedNames(call.args, "index_name"))
         /\ call.ret.value[1] = <<>>
         /\ \A i \in 1..Len(ListedNames(call.args, "index_name")) :
              call.ret.value[i + 1] = ListedNames(call.args, "index_name")[i]
    /\ call.op = "_parse_container_names" =>
         /\ call.ret.raised = "none"
         /\ Len(call.ret.value) = 1 + Len(ListedNames(containers, "storage_name"))
         /\ call.ret.value[1] = <<>>
         /\ \A i \in 1..Len(ListedNames(containers, "storage_name")) :
              call.ret.value[i + 1] = ListedNames(containers, "storage_name")[i]

\* C7 witness: two index names were listed and three options came back.
C7_Witness ==
    /\ call.op = "show_index_options"
    /\ call.args = Dict("index_name", JList(<<NameD, NameE>>))
    /\ call.ret.value = <<<<>>, NameD, NameE>>

=============================================================================
